---- MODULE Spec2Model ----
(***************************************************************************)
(* convert_mysql_to_postgres (src/mysql_to_pgsql.py) as a state machine.   *)
(*                                                                         *)
(* Text is a sequence of lexical tokens.  Joining the tokens of a sequence *)
(* gives the text it stands for: a token is a punctuation character, a     *)
(* run of blanks (" " or "  "), a line break, a maximal run of word        *)
(* characters (an identifier, a type name, a number) or a fixed phrase     *)
(* that the program's patterns match as a whole ("CREATE TABLE",           *)
(* "ENGINE=InnoDB").  Every regular expression of the program is           *)
(* translated to the matcher it is on such sequences.  Keywords are in     *)
(* the case mysqldump writes them.                                         *)
(***************************************************************************)
EXTENDS Naturals, Sequences, FiniteSets

VARIABLES pc, input, content, lines, idx, new_lines, foreign_keys,
          in_create_table, current_table

vars == <<pc, input, content, lines, idx, new_lines, foreign_keys,
          in_create_table, current_table>>

\* ------------------------------------------------------------- tokens

NL == "\n"
SP == " "
IND == "  "
\* the backquote character (a TLA+ string cannot hold it)
BT == "[bq]"
DQ == "\""
ESCQ == "\\'"
DBLQ == "''"

\* \s of the regular expressions
IsSpace(t) == t \in {SP, IND, NL}

\* tokens that hold no word character
Punct == {SP, IND, NL, "(", ")", ",", ";", "=", BT, DQ, "'", ESCQ, DBLQ,
          "/*!", "*/"}

\* the token begins (ends) with a word character: \b holds between it and
\* a neighbour that does not
StartsWord(t) == t \notin Punct
EndsWord(t) == t \notin Punct \cup {"NOW()"}

\* the characters ')' and ';' as substrings of a token
HasRParen(t) == t \in {")", "NOW()"}
HasSemi(t) == t = ";"

\* \d+
IsDigits(t) == t \in {"1", "4", "5", "10", "11"}

\* \w+ : one identifier, type name or number
IsWord(t) ==
    t \in {"t", "u", "a", "b", "c", "id", "k", "fk1", "fk2", "x", "y",
           "int", "bigint", "smallint", "tinyint", "varchar", "double",
           "datetime", "timestamp", "longtext", "mediumtext", "unsigned",
           "INTEGER", "SERIAL", "BOOLEAN", "SMALLINT", "TIMESTAMP",
           "VARCHAR", "TEXT", "NULL", "DEFAULT", "AUTO_INCREMENT",
           "CURRENT_TIMESTAMP", "VALUES", "ADD", "CONSTRAINT", "KEY",
           "REFERENCES", "WRITE", "UPDATE", "SET"}
    \/ IsDigits(t)

\* ------------------------------------------------------------ helpers

\* the token at i, or a line break past either end of the text
At(s, i) == IF i >= 1 /\ i <= Len(s) THEN s[i] ELSE NL

StartsWith(s, i, p) ==
    /\ i >= 1
    /\ i + Len(p) - 1 <= Len(s)
    /\ SubSeq(s, i, i + Len(p) - 1) = p

\* the least member of a set of indices, 0 for the empty set
Least(S) == IF S = {} THEN 0 ELSE CHOOSE k \in S : \A j \in S : k <= j

\* the index after the run of blanks that starts at i (\s*)
RECURSIVE SkipSpace(_, _)
SkipSpace(s, i) ==
    IF i <= Len(s) /\ IsSpace(s[i]) THEN SkipSpace(s, i + 1) ELSE i

\* the index before the run of blanks that ends at i
RECURSIVE SkipSpaceBack(_, _)
SkipSpaceBack(s, i) ==
    IF i >= 1 /\ i <= Len(s) /\ IsSpace(s[i]) THEN SkipSpaceBack(s, i - 1)
    ELSE i

\* the index of the first token t at or after i, 0 when there is none
NextTok(s, i, t) == Least({k \in i..Len(s) : s[k] = t})

\* a pattern that does not match at a position
NoMatch == [end |-> 0, repl |-> <<>>]

\* re.sub(pattern, repl, s) from index i on.  m[p] is the match of the
\* pattern that starts at p: end, the index after it (0 when the pattern
\* does not match there), and repl, what replaces it.  As re.sub does, the
\* leftmost match is replaced and the search goes on after it.
RECURSIVE Sub(_, _, _)
Sub(s, i, m) ==
    LET p == Least({q \in i..Len(s) : m[q].end # 0})
    IN  IF p = 0 THEN SubSeq(s, i, Len(s))
        ELSE SubSeq(s, i, p - 1) \o m[p].repl \o Sub(s, m[p].end, m)

\* ".*?suf" from k: the index after the first suf at or after k, 0 when
\* there is none; without DOTALL "." stops at a line break
LazyEnd(s, k, suf, dotall) ==
    LET e == Least({j \in k..Len(s) : StartsWith(s, j, suf)})
    IN  IF e = 0 THEN 0
        ELSE IF ~dotall /\ \E j \in k..(e - 1) : s[j] = NL THEN 0
        ELSE e + Len(suf)

\* "pre.*?suf" matched at i: the index after the match, 0 for no match
SpanEnd(s, i, pre, suf, dotall) ==
    IF StartsWith(s, i, pre) THEN LazyEnd(s, i + Len(pre), suf, dotall)
    ELSE 0

\* "pre.*?suf" at i, then ";?" when optSemi: the index after the match
SpanEndSemi(s, i, pre, suf, dotall, optSemi) ==
    LET e == SpanEnd(s, i, pre, suf, dotall)
    IN  IF optSemi /\ e # 0 /\ At(s, e) = ";" THEN e + 1 ELSE e

\* re.sub(r'pre.*?suf;?', '', s): optSemi says whether ";?" ends the pattern
RemoveSpans(s, pre, suf, dotall, optSemi) ==
    Sub(s, 1, [p \in 1..Len(s) |->
                [end |-> SpanEndSemi(s, p, pre, suf, dotall, optSemi),
                 repl |-> <<>>]])

\* str.replace / a pattern that is one token: every token a becomes b
MapToken(s, a, b) == [k \in 1..Len(s) |-> IF s[k] = a THEN b ELSE s[k]]

\* ------------------------------------------------- rule-based rewriter

\* line 17: re.sub(r'/\*![\d\s]*.*?\*/;?', '', content, flags=re.DOTALL)
StripConditionalComments(s) ==
    RemoveSpans(s, <<"/*!">>, <<"*/">>, TRUE, TRUE)

\* lines 20-21: re.sub(r'SET @OLD_.*?;', ...), re.sub(r'SET @saved_.*?;', ...)
StripSetCommands(s) ==
    RemoveSpans(RemoveSpans(s, <<"SET @OLD_">>, <<";">>, FALSE, FALSE),
                <<"SET @saved_">>, <<";">>, FALSE, FALSE)

\* lines 26-31: insert_stmt.replace("\\'", "''")
fix_quotes_in_inserts(stmt) == MapToken(stmt, ESCQ, DBLQ)

\* r'INSERT INTO.*?;' with re.DOTALL matched at p: the index after it
InsertEnd(s, p) == SpanEnd(s, p, <<"INSERT INTO">>, <<";">>, TRUE)

\* line 34: re.sub(r'INSERT INTO.*?;', fix_quotes_in_inserts, content, DOTALL)
FixInserts(s) ==
    Sub(s, 1, [p \in 1..Len(s) |->
                IF InsertEnd(s, p) = 0 THEN NoMatch
                ELSE [end |-> InsertEnd(s, p),
                      repl |-> fix_quotes_in_inserts(
                                   SubSeq(s, p, InsertEnd(s, p) - 1))]])

\* line 37: re.sub(r'LOCK TABLES [bq].*?[bq] WRITE;', '', content)
\* line 38: re.sub(r'UNLOCK TABLES;', '', content)
RemoveLocks(s) ==
    LET a == RemoveSpans(s, <<"LOCK TABLES", SP, BT>>,
                         <<BT, SP, "WRITE", ";">>, FALSE, FALSE)
    IN  Sub(a, 1, [p \in 1..Len(a) |->
                    IF StartsWith(a, p, <<"UNLOCK TABLES", ";">>)
                    THEN [end |-> p + 2, repl |-> <<>>] ELSE NoMatch])

\* line 41: content.replace('[bq]', '"')
TranslateQuotes(s) == MapToken(s, BT, DQ)

\* r'\s*OPT' (atLeastOne: r'\s+OPT') matched at p, for the options opts
OptEnd(s, p, opts, atLeastOne) ==
    LET j == SkipSpace(s, p)
    IN  IF At(s, j) \in opts /\ (j > p \/ ~atLeastOne) THEN j + 1 ELSE 0

\* re.sub(r'\s*OPT', '', s)
StripOpt(s, opts, atLeastOne) ==
    Sub(s, 1, [p \in 1..Len(s) |->
                [end |-> OptEnd(s, p, opts, atLeastOne), repl |-> <<>>]])

\* line 44: r'\s*ENGINE\s*=\s*\w+'
StripEngine(s) == StripOpt(s, {"ENGINE=InnoDB", "ENGINE=MyISAM"}, FALSE)

\* lines 47-48: r'\s*DEFAULT CHARSET\s*=\s*\w+', r'\s*COLLATE\s*=\s*\w+'
StripTableCharset(s) ==
    StripOpt(StripOpt(s, {"DEFAULT CHARSET=utf8mb4"}, FALSE),
             {"COLLATE=utf8mb4_bin"}, FALSE)

\* lines 51-52: r'\s+CHARACTER SET\s+\w+', r'\s+COLLATE\s+\w+'
StripColumnCharset(s) ==
    StripOpt(StripOpt(s, {"CHARACTER SET utf8mb4"}, TRUE),
             {"COLLATE utf8mb4_bin"}, TRUE)

\* line 56: r'\s*AUTO_INCREMENT\s*=\s*\d+'
StripAutoIncrementOption(s) == StripOpt(s, {"AUTO_INCREMENT=5"}, FALSE)

\* lines 44-56 in order
StripOptions(s) ==
    StripAutoIncrementOption(
        StripColumnCharset(StripTableCharset(StripEngine(s))))

\* (int|bigint|smallint) of line 61
SizedIntegers == {"int", "bigint", "smallint"}

\* the rule of line 61 with the type keyword kept: r'\1 \2 SERIAL'
AutoIncrementMatchKeepsType(s, i) ==
    LET w == IF At(s, i) = DQ THEN i + 1 ELSE i
        a == IF At(s, w + 1) = DQ THEN w + 2 ELSE w + 1
        b == SkipSpace(s, a)
        c == SkipSpace(s, b + 1)
        d == SkipSpace(s, c + 1)
    IN  IF /\ IsWord(At(s, w))
           /\ b > a /\ At(s, b) \in SizedIntegers
           /\ c > b + 1 /\ At(s, c) = "NOT NULL"
           /\ d > c + 1 /\ At(s, d) = "AUTO_INCREMENT"
        THEN [end |-> d + 1,
              repl |-> SubSeq(s, i, a - 1) \o <<SP, s[b], SP, "SERIAL">>]
        ELSE NoMatch

\* line 61: r'("?\w+"?)\s+(int|bigint|smallint)\s+NOT\s+NULL\s+AUTO_INCREMENT'
\* matched at i, replaced by r'\1 SERIAL'
AutoIncrementMatch(s, i) ==
    LET w == IF At(s, i) = DQ THEN i + 1 ELSE i
        a == IF At(s, w + 1) = DQ THEN w + 2 ELSE w + 1
        b == SkipSpace(s, a)
        c == SkipSpace(s, b + 1)
        d == SkipSpace(s, c + 1)
    IN  IF /\ IsWord(At(s, w))
           /\ b > a /\ At(s, b) \in SizedIntegers
           /\ c > b + 1 /\ At(s, c) = "NOT NULL"
           /\ d > c + 1 /\ At(s, d) = "AUTO_INCREMENT"
        THEN [end |-> d + 1, repl |-> SubSeq(s, i, a - 1) \o <<SP, "SERIAL">>]
        ELSE NoMatch

\* lines 60-65
ConvertAutoIncrement(s) ==
    Sub(s, 1, [p \in 1..Len(s) |-> AutoIncrementMatch(s, p)])

\* \bTOKEN\b at i
WordBounded(s, i) ==
    /\ (i = 1 \/ ~EndsWord(s[i - 1]))
    /\ (i = Len(s) \/ ~StartsWord(s[i + 1]))

\* (?!\s+SERIAL) after the token at i
NotBeforeSerial(s, i) ==
    LET j == SkipSpace(s, i + 1)
    IN  ~(j > i + 1 /\ At(s, j) = "SERIAL")

\* line 68: re.sub(r'\b(int)\b(?!\s+SERIAL)', 'INTEGER', content)
RenameInt(s) ==
    [k \in 1..Len(s) |->
        IF s[k] = "int" /\ WordBounded(s, k) /\ NotBeforeSerial(s, k)
        THEN "INTEGER" ELSE s[k]]

\* re.sub(r'\bfrom\b', 'to', content)
RenameWord(s, from, to) ==
    [k \in 1..Len(s) |->
        IF s[k] = from /\ WordBounded(s, k) THEN to ELSE s[k]]

\* line 77: re.sub(r'tinyint\(1\)', 'BOOLEAN', content)
RenameBoolean(s) ==
    Sub(s, 1, [p \in 1..Len(s) |->
                IF StartsWith(s, p, <<"tinyint", "(", "1", ")">>)
                THEN [end |-> p + 4, repl |-> <<"BOOLEAN">>] ELSE NoMatch])

\* line 80: re.sub(r'tinyint(\(\d+\))?', 'SMALLINT', content)
RenameTinyint(s) ==
    Sub(s, 1, [p \in 1..Len(s) |->
                IF s[p] # "tinyint" THEN NoMatch
                ELSE IF At(s, p + 1) = "(" /\ IsDigits(At(s, p + 2))
                        /\ At(s, p + 3) = ")"
                     THEN [end |-> p + 4, repl |-> <<"SMALLINT">>]
                     ELSE [end |-> p + 1, repl |-> <<"SMALLINT">>]])

\* lines 68-90 in order
RenameTypes(s) ==
    LET a == RenameWord(RenameInt(s), "double", "DOUBLE PRECISION")
        b == RenameTinyint(RenameBoolean(a))
        c == RenameWord(RenameWord(b, "datetime", "TIMESTAMP"),
                        "varchar", "VARCHAR")
    IN  RenameWord(RenameWord(c, "longtext", "TEXT"), "mediumtext", "TEXT")

\* a token that ends with TIMESTAMP, whatever the case
EndsWithTimestamp(t) == t \in {"timestamp", "TIMESTAMP", "CURRENT_TIMESTAMP"}

\* lines 95-100: r'(TIMESTAMP\s+NOT\s+NULL\s+DEFAULT\s+CURRENT_TIMESTAMP)
\* \s+ON\s+UPDATE\s+CURRENT_TIMESTAMP' matched at i, replaced by r'\1'
OnUpdateMatch(s, i) ==
    LET a == SkipSpace(s, i + 1)
        b == SkipSpace(s, a + 1)
        c == SkipSpace(s, b + 1)
        d == SkipSpace(s, c + 1)
        e == SkipSpace(s, d + 1)
    IN  IF /\ EndsWithTimestamp(At(s, i))
           /\ a > i + 1 /\ At(s, a) = "NOT NULL"
           /\ b > a + 1 /\ At(s, b) = "DEFAULT"
           /\ c > b + 1 /\ At(s, c) = "CURRENT_TIMESTAMP"
           /\ d > c + 1 /\ At(s, d) = "ON UPDATE"
           /\ e > d + 1 /\ At(s, e) = "CURRENT_TIMESTAMP"
        THEN [end |-> e + 1, repl |-> SubSeq(s, i, c)]
        ELSE NoMatch

StripOnUpdate(s) == Sub(s, 1, [p \in 1..Len(s) |-> OnUpdateMatch(s, p)])

\* lines 95-103: then re.sub(r'\bCURRENT_TIMESTAMP\b', 'NOW()', content)
FixTimestamps(s) ==
    RenameWord(StripOnUpdate(s), "CURRENT_TIMESTAMP", "NOW()")

\* lines 16-103: the rules in their order
Rewrite(s) ==
    FixTimestamps(RenameTypes(ConvertAutoIncrement(StripOptions(
        TranslateQuotes(RemoveLocks(FixInserts(StripSetCommands(
            StripConditionalComments(s)))))))))

\* ------------------------------------------- constraint deferral pass

\* current_table = None
None == <<>>

\* line 107: content.split('\n')
RECURSIVE SplitFrom(_, _)
SplitFrom(s, i) ==
    LET p == NextTok(s, i, NL)
    IN  IF p = 0 THEN <<SubSeq(s, i, Len(s))>>
        ELSE <<SubSeq(s, i, p - 1)>> \o SplitFrom(s, p + 1)

SplitLines(s) == SplitFrom(s, 1)

\* line 160: '\n'.join(new_lines)
RECURSIVE JoinLines(_)
JoinLines(ls) ==
    IF ls = <<>> THEN <<>>
    ELSE IF Len(ls) = 1 THEN ls[1]
    ELSE ls[1] \o <<NL>> \o JoinLines(Tail(ls))

\* line 115: 'CREATE TABLE' in line.upper()
ContainsCreateTable(line) == \E k \in 1..Len(line) : line[k] = "CREATE TABLE"

\* line 118: r'CREATE TABLE\s+"([^"]+)"' matched at k
TableNameAt(line, k) ==
    LET a == SkipSpace(line, k + 1)
        e == NextTok(line, a + 1, DQ)
    IN  IF /\ line[k] = "CREATE TABLE"
           /\ a > k + 1 /\ At(line, a) = DQ
           /\ e > a + 1
        THEN SubSeq(line, a + 1, e - 1)
        ELSE None

\* line 118: re.search(...): group 1 of the leftmost match, None without one
TableName(line) ==
    LET k == Least({j \in 1..Len(line) : TableNameAt(line, j) # None})
    IN  IF k = 0 THEN None ELSE TableNameAt(line, k)

\* r'CONSTRAINT\s+"([^"]+)"\s+FOREIGN KEY' matched at k: the index after
\* the match and group 1, end 0 for no match
FkHeadAt(line, k) ==
    LET a == SkipSpace(line, k + 1)
        e == NextTok(line, a + 1, DQ)
        f == SkipSpace(line, e + 1)
    IN  IF /\ line[k] = "CONSTRAINT"
           /\ a > k + 1 /\ At(line, a) = DQ
           /\ e > a + 1
           /\ f > e + 1 /\ At(line, f) = "FOREIGN KEY"
        THEN [end |-> f + 1, name |-> SubSeq(line, a + 1, e - 1)]
        ELSE [end |-> 0, name |-> None]

\* line 123: re.search(r'CONSTRAINT\s+"[^"]+"\s+FOREIGN KEY', line)
HasFkClause(line) == \E k \in 1..Len(line) : FkHeadAt(line, k).end # 0

\* lines 125-129: the whole clause pattern matched at k; ok says whether
\* it matched.  r'...FOREIGN KEY\s+\(([^)]+)\)\s+REFERENCES\s+"([^"]+)"
\* \s+\(([^)]+)\)(.+)'
FkMatchAt(line, k) ==
    LET hd == FkHeadAt(line, k)
        g == SkipSpace(line, hd.end)
        h == NextTok(line, g + 1, ")")
        r == SkipSpace(line, h + 1)
        q == SkipSpace(line, r + 1)
        q2 == NextTok(line, q + 1, DQ)
        p == SkipSpace(line, q2 + 1)
        p2 == NextTok(line, p + 1, ")")
    IN  IF /\ hd.end # 0
           /\ g > hd.end /\ At(line, g) = "("
           /\ h > g + 1
           /\ r > h + 1 /\ At(line, r) = "REFERENCES"
           /\ q > r + 1 /\ At(line, q) = DQ
           /\ q2 > q + 1
           /\ p > q2 + 1 /\ At(line, p) = "("
           /\ p2 > p + 1
           /\ p2 + 1 <= Len(line)
        THEN [ok |-> TRUE,
              constraint |-> hd.name,
              columns |-> SubSeq(line, g + 1, h - 1),
              ref_table |-> SubSeq(line, q + 1, q2 - 1),
              ref_columns |-> SubSeq(line, p + 1, p2 - 1),
              rest |-> SubSeq(line, p2 + 1, Len(line))]
        ELSE [ok |-> FALSE, constraint |-> None, columns |-> None,
              ref_table |-> None, ref_columns |-> None, rest |-> None]

\* lines 125-129: re.search: the leftmost match
FkMatch(line) ==
    LET k == Least({j \in 1..Len(line) : FkMatchAt(line, j).ok})
    IN  IF k = 0 THEN FkMatchAt(line, 1) ELSE FkMatchAt(line, k)

\* str.rstrip(',')
RECURSIVE RStripComma(_)
RStripComma(s) ==
    IF s # <<>> /\ s[Len(s)] = "," THEN RStripComma(SubSeq(s, 1, Len(s) - 1))
    ELSE s

\* str.strip()
Strip(s) == SubSeq(s, SkipSpace(s, 1), SkipSpaceBack(s, Len(s)))

\* line 135: fk_match.group(5).rstrip(',').strip()
Actions(rest) == Strip(RStripComma(rest))

\* lines 137-144: the record appended to foreign_keys
FkRecord(table, m) ==
    [table |-> table, constraint |-> m.constraint, columns |-> m.columns,
     ref_table |-> m.ref_table, ref_columns |-> m.ref_columns,
     actions |-> Actions(m.rest)]

\* line 149: re.match(r'\s*KEY\s+"', line)
IsKeyLine(line) ==
    LET a == SkipSpace(line, 1)
        b == SkipSpace(line, a + 1)
    IN  At(line, a) = "KEY" /\ b > a + 1 /\ At(line, b) = DQ

\* line 154: ')' in line and ';' in line
ClosesTable(line) ==
    /\ \E k \in 1..Len(line) : HasRParen(line[k])
    /\ \E k \in 1..Len(line) : HasSemi(line[k])

\* lines 115-120: the table context after the opening test
OpenedFlag(flag, line) == flag \/ ContainsCreateTable(line)

OpenedTable(table, line) ==
    IF ContainsCreateTable(line) /\ TableName(line) # None
    THEN TableName(line) ELSE table

\* the test of line 123 without "in_create_table and"
TakenAsFkAnywhere(flag, line) == HasFkClause(line)

\* lines 123-146: whether the line is taken as a constraint clause
TakenAsFk(flag, line) == OpenedFlag(flag, line) /\ HasFkClause(line)

\* lines 149-151: whether the line is taken as a secondary index
TakenAsKey(flag, line) ==
    /\ ~TakenAsFk(flag, line)
    /\ OpenedFlag(flag, line) /\ IsKeyLine(line)

\* lines 130-144: foreign_keys after the line
ScanForeignKeys(fks, flag, table, line) ==
    IF /\ TakenAsFk(flag, line)
       /\ FkMatch(line).ok
       /\ OpenedTable(table, line) # None
    THEN Append(fks, FkRecord(OpenedTable(table, line), FkMatch(line)))
    ELSE fks

\* the scan with a continue in the branch of lines 154-156 as well
ScanNewLinesSkipsClosing(out, flag, line) ==
    IF \/ TakenAsFk(flag, line) \/ TakenAsKey(flag, line)
       \/ OpenedFlag(flag, line) /\ ClosesTable(line)
    THEN out
    ELSE Append(out, line)

\* lines 146, 151, 158: new_lines after the line
ScanNewLines(out, flag, line) ==
    IF TakenAsFk(flag, line) \/ TakenAsKey(flag, line) THEN out
    ELSE Append(out, line)

\* lines 154-156: whether the line ends the table context
ScanCloses(flag, line) ==
    /\ ~TakenAsFk(flag, line)
    /\ ~TakenAsKey(flag, line)
    /\ OpenedFlag(flag, line) /\ ClosesTable(line)

\* lines 115-116, 155: in_create_table after the line
ScanFlag(flag, line) ==
    IF ScanCloses(flag, line) THEN FALSE ELSE OpenedFlag(flag, line)

\* lines 118-120, 156: current_table after the line
ScanTable(flag, table, line) ==
    IF ScanCloses(flag, line) THEN None ELSE OpenedTable(table, line)

\* line 163: re.sub(r',(\s*\n\s*\);)', r'\1', content)
DanglingComma(s, i) ==
    LET j == SkipSpace(s, i + 1)
    IN  /\ s[i] = ","
        /\ \E k \in (i + 1)..(j - 1) : s[k] = NL
        /\ At(s, j) = ")" /\ At(s, j + 1) = ";"

CleanCommas(s) ==
    Sub(s, 1, [p \in 1..Len(s) |->
                IF DanglingComma(s, p)
                THEN [end |-> SkipSpace(s, p + 1) + 2,
                      repl |-> SubSeq(s, p + 1, SkipSpace(s, p + 1) + 1)]
                ELSE NoMatch])

\* line 167: the comment that opens the trailing block
FkComment ==
    "-- Foreign key constraints (added after table creation to avoid dependency issues)"

\* line 169: the statement of one record
FkStatement(fk) ==
    <<"ALTER TABLE", SP, DQ>> \o fk.table
    \o <<DQ, SP, "ADD", SP, "CONSTRAINT", SP, DQ>> \o fk.constraint
    \o <<DQ, SP, "FOREIGN KEY", SP, "(">> \o fk.columns
    \o <<")", SP, "REFERENCES", SP, DQ>> \o fk.ref_table
    \o <<DQ, SP, "(">> \o fk.ref_columns
    \o <<")", SP>> \o fk.actions \o <<";">>

\* the loop of line 169 over the records last to first
FkStatementsReversed(fks) ==
    <<<<NL, NL, FkComment, NL>>>>
    \o [k \in 1..Len(fks) |-> FkStatement(fks[Len(fks) + 1 - k])]

\* lines 167-170: fk_statements
FkStatements(fks) ==
    <<<<NL, NL, FkComment, NL>>>>
    \o [k \in 1..Len(fks) |-> FkStatement(fks[k])]

\* lines 166-171: content += '\n'.join(fk_statements) when there are records
AppendBlock(s, fks) ==
    IF fks # <<>> THEN s \o JoinLines(FkStatements(fks)) ELSE s

\* lines 174-175: r'ALTER TABLE ".*?" DISABLE KEYS;?', r'... ENABLE KEYS;?'
RemoveKeysStatements(s) ==
    LET a == RemoveSpans(s, <<"ALTER TABLE", SP, DQ>>,
                         <<DQ, SP, "DISABLE KEYS">>, FALSE, TRUE)
    IN  RemoveSpans(a, <<"ALTER TABLE", SP, DQ>>,
                    <<DQ, SP, "ENABLE KEYS">>, FALSE, TRUE)

\* line 178: re.sub(r'\n\s*\n\s*\n+', '\n\n', content).  A match runs from
\* a line break to the last line break of the run of blanks it starts
BlankRunMatch(s, i) ==
    LET j == SkipSpace(s, i)
        breaks == {k \in i..(j - 1) : s[k] = NL}
        last == CHOOSE k \in breaks : \A m \in breaks : m <= k
    IN  IF s[i] = NL /\ Cardinality(breaks) >= 3
        THEN [end |-> last + 1, repl |-> <<NL, NL>>]
        ELSE NoMatch

CollapseBlankLines(s) == Sub(s, 1, [p \in 1..Len(s) |-> BlankRunMatch(s, p)])

\* lines 181-192: postgres_header, one token
PostgresHeader == "<postgres_header>"

\* line 194: content = postgres_header + content
AddHeader(s) == <<PostgresHeader>> \o s

\* ------------------------------------------------------------- inputs

\* the longest dump of the scan specification, in lines
MaxLines == 3

\* the longest table body of the table specification, in lines
MaxBody == 2

\* the longest dump of the column specification, in lines
MaxCols == 3

\* the longest dump of the insert specification, in lines
MaxStmts == 3

\* every sequence of 1..n members of the catalogue cat
Upto(cat, n) == UNION {[1..m -> cat] : m \in 1..n}

\* every text of 1..n lines drawn from the catalogue cat
Docs(cat, n) == {JoinLines(ls) : ls \in Upto(cat, n)}

Open(name) == <<"CREATE TABLE", SP, BT, name, BT, SP, "(">>
OpenT == Open("t")
OpenU == Open("u")

\* a column declaration: name, then the tokens of its type and modifiers
Column(name, decl) == <<IND, BT, name, BT, SP>> \o decl \o <<",">>

ColA == Column("a", <<"int", SP, "NOT NULL">>)
ColSemi ==
    Column("a", <<"varchar", "(", "10", ")", SP, "DEFAULT", SP,
                  "'", ";", "'">>)
ColId == Column("id", <<"int", SP, "NOT NULL", SP, "AUTO_INCREMENT">>)
ColBig == Column("b", <<"bigint", SP, "NOT NULL", SP, "AUTO_INCREMENT">>)
ColUnsigned ==
    Column("c", <<"int", SP, "unsigned", SP, "NOT NULL", SP,
                  "AUTO_INCREMENT">>)

FkClause(name, ref) ==
    <<IND, "CONSTRAINT", SP, BT, name, BT, SP, "FOREIGN KEY", SP,
      "(", BT, "a", BT, ")", SP, "REFERENCES", SP, BT, ref, BT, SP,
      "(", BT, "id", BT, ")">>

\* a clause with trailing actions and a comma, one with a comma only, and
\* one with neither (the last clause of a body, as mysqldump writes it)
FkAC == FkClause("fk1", "u") \o <<SP, "ON DELETE CASCADE", ",">>
FkC == FkClause("fk2", "t") \o <<",">>
FkBare == FkClause("fk2", "t")

KeyK == <<IND, "KEY", SP, BT, "k", BT, SP, "(", BT, "a", BT, ")">>

CloseT == <<")", SP, "ENGINE=InnoDB", SP, "DEFAULT CHARSET=utf8mb4", ";">>
CloseOpt == <<")", SP, "ENGINE=InnoDB", SP, "ROW_FORMAT=DYNAMIC", ";">>
CloseAuto == <<")", SP, "ENGINE=InnoDB", SP, "AUTO_INCREMENT=5", ";">>

\* a constraint added by a statement of its own, outside any definition
AlterFk ==
    <<"ALTER TABLE", SP, BT, "t", BT, SP, "ADD">> \o Tail(FkBare)
    \o <<SP, "ON DELETE CASCADE", ";">>

DisableKeys == <<"ALTER TABLE", SP, BT, "t", BT, SP, "DISABLE KEYS", ";">>

\* the whole definition on one line
OneLine ==
    <<"CREATE TABLE", SP, BT, "t", BT, SP, "(", BT, "id", BT, SP, "int",
      SP, "NOT NULL", SP, "AUTO_INCREMENT", ",", SP, "CONSTRAINT", SP,
      BT, "fk1", BT, SP, "FOREIGN KEY", SP, "(", BT, "a", BT, ")", SP,
      "REFERENCES", SP, BT, "u", BT, SP, "(", BT, "id", BT, ")", SP,
      "ON DELETE CASCADE", ")", ";">>

\* INSERT INTO [bq]t[bq] VALUES (1,'...') and what follows the row
InsertRow(lit) ==
    <<"INSERT INTO", SP, BT, "t", BT, SP, "VALUES", SP, "(", "1", ",",
      "'">> \o lit \o <<"'", ")">>

InsEsc == InsertRow(<<"a", ESCQ, "b">>) \o <<";">>
InsSemi == InsertRow(<<"a", ";", "b", ESCQ, "c">>) \o <<";">>
InsHead == InsertRow(<<"a", ESCQ, "b">>) \o <<",">>
InsTail == <<"(", "4", ",", "'", "x", ESCQ, "y", "'", ")", ";">>
InsWords == InsertRow(<<"int", SP, BT, "double", BT>>) \o <<";">>
InsAuto == InsertRow(<<"AUTO_INCREMENT">>) \o <<";">>
UpdateEsc ==
    <<"UPDATE", SP, BT, "t", BT, SP, "SET", SP, BT, "a", BT, "=", "'",
      "x", ESCQ, "y", "'", ";">>

ScanCatalogue == {OpenT, OpenU, FkAC, FkC, FkBare, KeyK, CloseT, AlterFk}

BodyCatalogue == {ColA, ColSemi, KeyK, FkAC, FkBare}
CloseCatalogue == {CloseT, CloseOpt}
Trailers == {<<>>, <<<<>>, <<>>, <<>>, DisableKeys>>}

\* one table definition and what follows it
TableDocs ==
    {JoinLines(<<OpenT>> \o body \o <<close>> \o trailer) :
        body \in Upto(BodyCatalogue, MaxBody),
        close \in CloseCatalogue, trailer \in Trailers}

ColumnCatalogue ==
    {OpenT, ColA, ColId, ColBig, ColUnsigned, CloseAuto, InsAuto}

InsertCatalogue == {InsEsc, InsSemi, InsHead, InsTail, InsWords, UpdateEsc}

\* --------------------------------------------------------- the program

InitOn(docs) ==
    /\ input \in docs
    /\ content = input
    /\ pc = "comments"
    /\ lines = <<>>
    /\ idx = 0
    /\ new_lines = <<>>
    /\ foreign_keys = <<>>
    /\ in_create_table = FALSE
    /\ current_table = None

\* lines 13-14: the dump read from input_file
Init == InitOn(Docs(ScanCatalogue, MaxLines) \cup {OneLine})

InitTable == InitOn(TableDocs)

InitColumns == InitOn(Docs(ColumnCatalogue, MaxCols))

InitInserts == InitOn(Docs(InsertCatalogue, MaxStmts))

\* a rule of the rewriter: content = rule(content)
Rule(from, to, new) ==
    /\ pc = from
    /\ pc' = to
    /\ content' = new
    /\ UNCHANGED <<input, lines, idx, new_lines, foreign_keys,
                   in_create_table, current_table>>

\* lines 16-21
StripDialect ==
    Rule("comments", "inserts",
         StripSetCommands(StripConditionalComments(content)))

\* lines 23-34
FixInsertQuotes == Rule("inserts", "locks", FixInserts(content))

\* lines 36-38
RemoveLockStatements == Rule("locks", "quotes", RemoveLocks(content))

\* lines 40-41
TranslateIdentifierQuotes ==
    Rule("quotes", "options", TranslateQuotes(content))

\* lines 43-56
StripTableOptions == Rule("options", "autoinc", StripOptions(content))

\* lines 58-65
ConvertAutoIncrementColumns ==
    Rule("autoinc", "types", ConvertAutoIncrement(content))

\* lines 67-90
RenameTypeKeywords == Rule("types", "timestamps", RenameTypes(content))

\* lines 92-103
FixTimestampDefaults == Rule("timestamps", "split", FixTimestamps(content))

\* lines 107-111
BeginScan ==
    /\ pc = "split"
    /\ pc' = "scan"
    /\ lines' = SplitLines(content)
    /\ idx' = 1
    /\ new_lines' = <<>>
    /\ foreign_keys' = <<>>
    /\ in_create_table' = FALSE
    /\ current_table' = None
    /\ UNCHANGED <<input, content>>

\* lines 113-158: one iteration of the loop
ScanLine ==
    /\ pc = "scan"
    /\ idx <= Len(lines)
    /\ foreign_keys' = ScanForeignKeys(foreign_keys, in_create_table,
                                       current_table, lines[idx])
    /\ new_lines' = ScanNewLines(new_lines, in_create_table, lines[idx])
    /\ in_create_table' = ScanFlag(in_create_table, lines[idx])
    /\ current_table' = ScanTable(in_create_table, current_table, lines[idx])
    /\ idx' = idx + 1
    /\ UNCHANGED <<pc, input, content, lines>>

\* lines 160-163: the loop is over
JoinAndCleanCommas ==
    /\ pc = "scan"
    /\ idx > Len(lines)
    /\ pc' = "append"
    /\ content' = CleanCommas(JoinLines(new_lines))
    /\ UNCHANGED <<input, lines, idx, new_lines, foreign_keys,
                   in_create_table, current_table>>

\* lines 165-171
AppendForeignKeys ==
    Rule("append", "keys", AppendBlock(content, foreign_keys))

\* lines 173-175
RemoveKeysToggles == Rule("keys", "blank", RemoveKeysStatements(content))

\* lines 177-178
CollapseBlanks == Rule("blank", "write", CollapseBlankLines(content))

\* lines 180-198
WriteOutput == Rule("write", "done", AddHeader(content))

Next ==
    \/ StripDialect
    \/ FixInsertQuotes
    \/ RemoveLockStatements
    \/ TranslateIdentifierQuotes
    \/ StripTableOptions
    \/ ConvertAutoIncrementColumns
    \/ RenameTypeKeywords
    \/ FixTimestampDefaults
    \/ BeginScan
    \/ ScanLine
    \/ JoinAndCleanCommas
    \/ AppendForeignKeys
    \/ RemoveKeysToggles
    \/ CollapseBlanks
    \/ WriteOutput

\* dumps of table lines, constraint clauses and statements
Spec == Init /\ [][Next]_vars

\* dumps of one table definition
SpecTable == InitTable /\ [][Next]_vars

\* dumps of column declarations
SpecColumns == InitColumns /\ [][Next]_vars

\* dumps of row data
SpecInserts == InitInserts /\ [][Next]_vars

\* ------------------------------------------------- what the claims name

Final == pc = "done"

\* the converted text under the header, and its lines
Output == Tail(content)
OutLines == SplitLines(Output)
InLines == SplitLines(input)

Last(l) == At(l, Len(l))
Count(s, t) == Cardinality({k \in 1..Len(s) : s[k] = t})
Contains(s, p) == \E k \in 1..Len(s) : StartsWith(s, k, p)
Quoted(s) == [k \in 1..Len(s) |-> IF s[k] = BT THEN DQ ELSE s[k]]

\* the first token of a line that is not a blank
FirstWord(l) == At(l, SkipSpace(l, 1))

\* a line that is a foreign-key constraint clause of a table body
IsClauseLine(l) == FirstWord(l) = "CONSTRAINT" /\ Count(l, "FOREIGN KEY") = 1

\* a line that is a plain secondary index of a table body
IsIndexLine(l) == FirstWord(l) = "KEY"

\* a line that opens a table definition, and the table it names
IsOpeningLine(l) == FirstWord(l) = "CREATE TABLE"
NamedTable(l) == <<l[4]>>

\* a line that holds the closing delimiter of a table definition
IsClosingLine(l) ==
    /\ Last(l) = ";"
    /\ \/ FirstWord(l) = ")"
       \/ IsOpeningLine(l) /\ At(l, Len(l) - 1) = ")"

\* the table whose definition is open once the first k of the lines ls
\* are read: the one named by the last opening line, unless a closing
\* line has come since
OpenDefinition(ls, k) ==
    LET opens == {o \in 1..k : IsOpeningLine(ls[o])}
        o == CHOOSE x \in opens : \A y \in opens : y <= x
    IN  IF opens = {} THEN None
        ELSE IF \E j \in o..k : IsClosingLine(ls[j]) THEN None
        ELSE NamedTable(ls[o])

\* the lines of the trailing block: those under its comment line
BlockStart == Least({j \in 1..Len(OutLines) : OutLines[j] = <<FkComment>>})
BlockLines ==
    IF BlockStart = 0 THEN {} ELSE (BlockStart + 1)..Len(OutLines)

\* "ALTER TABLE "table" ADD " and the clause of the body line l, which a
\* standalone statement for that clause begins with
StatementHead(table, l) ==
    <<"ALTER TABLE", SP, DQ>> \o table \o <<DQ, SP, "ADD", SP>>
    \o Quoted(SubSeq(l, 2, 26))

\* the lines ls without those at the indices D
RECURSIVE Without(_, _, _)
Without(ls, D, k) ==
    IF k > Len(ls) THEN <<>>
    ELSE (IF k \in D THEN <<>> ELSE <<ls[k]>>) \o Without(ls, D, k + 1)

\* a is b with some members left out
RECURSIVE IsSubsequence(_, _)
IsSubsequence(a, b) ==
    IF a = <<>> THEN TRUE
    ELSE IF b = <<>> THEN FALSE
    ELSE IF a[1] = b[1] THEN IsSubsequence(Tail(a), Tail(b))
    ELSE IsSubsequence(a, Tail(b))

\* ----------------------------------------------------------------- C1

\* C1: for a table definition whose body holds exactly one foreign-key
\* clause line, the output holds no in-line clause and exactly one
\* trailing ALTER TABLE ... ADD CONSTRAINT statement that names the table,
\* the constraint, the columns and the referenced table and columns,
\* whatever trails the clause.
C1_OneClauseOneStatement ==
    Final =>
        \A k \in 1..Len(InLines) :
            (/\ IsClauseLine(InLines[k])
             /\ Cardinality({j \in 1..Len(InLines) :
                                IsClauseLine(InLines[j])}) = 1)
            => /\ \A j \in 1..Len(OutLines) : ~IsClauseLine(OutLines[j])
               /\ Cardinality(
                      {j \in BlockLines :
                          /\ StartsWith(OutLines[j], 1,
                                 StatementHead(
                                     Quoted(OpenDefinition(InLines, k)),
                                     InLines[k]))
                          /\ Last(OutLines[j]) = ";"}) = 1

\* ----------------------------------------------------------------- C2

C2_Statement ==
    <<"ALTER TABLE", SP, DQ, "t", DQ, SP, "ADD", SP, "CONSTRAINT", SP, DQ,
      "fk1", DQ, SP, "FOREIGN KEY", SP, "(", "a", ")", SP, "REFERENCES",
      SP, DQ, "u", DQ, SP, "(", "id", ")", SP, "ON DELETE CASCADE", ";">>

\* C2: the one-line definition is converted to a definition of "t" that
\* holds "id" SERIAL and no in-line constraint, followed later by exactly
\* ALTER TABLE "t" ADD CONSTRAINT "fk1" FOREIGN KEY (a) REFERENCES "u" (id)
\* ON DELETE CASCADE;
C2_OneLineScenario ==
    (Final /\ input = OneLine) =>
        \E d \in 1..Len(OutLines) :
            /\ Contains(OutLines[d], <<"CREATE TABLE", SP, DQ, "t", DQ>>)
            /\ Contains(OutLines[d], <<DQ, "id", DQ, SP, "SERIAL">>)
            /\ Count(OutLines[d], "CONSTRAINT") = 0
            /\ \E j \in (d + 1)..Len(OutLines) : OutLines[j] = C2_Statement

\* ----------------------------------------------------------------- C3

\* C3: when the last clause of a table body (a foreign-key clause or a
\* plain KEY line) was dropped by the pass, the line now before the
\* closing delimiter line does not end with a comma, whatever the closing
\* line holds.
C3_NoDanglingComma ==
    Final =>
        \A c \in 2..Len(InLines) :
            (/\ IsClosingLine(InLines[c])
             /\ IsClauseLine(InLines[c - 1]) \/ IsIndexLine(InLines[c - 1]))
            => \A d \in 2..Len(OutLines) :
                   (/\ IsClosingLine(OutLines[d])
                    /\ ~IsClauseLine(OutLines[d - 1])
                    /\ ~IsIndexLine(OutLines[d - 1]))
                   => Last(OutLines[d - 1]) # ","

\* ----------------------------------------------------------------- C4

\* the index of the delimiter that ends the statement begun at p: the
\* first ";" that is not inside a string literal
StatementEnd(s, p) ==
    Least({e \in (p + 1)..Len(s) :
              /\ s[e] = ";"
              /\ Cardinality({k \in p..e : s[k] = "'"}) % 2 = 0})

\* the token at i is inside an insert statement
InInsert(s, i) ==
    \E p \in 1..(i - 1) :
        /\ s[p] = "INSERT INTO"
        /\ i < StatementEnd(s, p)

\* C4: a backslash-escaped quote inside an insert statement, up to the
\* delimiter that really ends it, becomes a doubled quote; one outside
\* every insert statement stays as it is.
C4_QuotesInInserts ==
    Final =>
        \A i \in 1..Len(input) :
            input[i] = ESCQ =>
                Output[i] = IF InInsert(input, i) THEN DBLQ ELSE ESCQ

\* ----------------------------------------------------------------- C5

\* a declaration of a sized-integer column directly followed by
\* NOT NULL AUTO_INCREMENT
IsAutoIncrementColumn(l) ==
    /\ Len(l) >= 10
    /\ l[2] = BT /\ l[4] = BT
    /\ l[6] \in {"int", "bigint", "smallint"}
    /\ SubSeq(l, 7, 10) = <<SP, "NOT NULL", SP, "AUTO_INCREMENT">>

\* the word AUTO_INCREMENT in a token
HasAutoIncrementWord(t) == t \in {"AUTO_INCREMENT", "AUTO_INCREMENT=5"}

\* the declaration on line k became the column name and SERIAL, once, with
\* no type keyword of its own left or renamed and no AUTO_INCREMENT
SerialColumn(k) ==
    /\ StartsWith(OutLines[k], 1, <<IND, DQ, InLines[k][3], DQ, SP, "SERIAL">>)
    /\ Count(OutLines[k], "SERIAL") = 1
    /\ \A j \in 1..Len(OutLines[k]) :
           /\ OutLines[k][j] \notin {"int", "bigint", "smallint", "INTEGER"}
           /\ ~HasAutoIncrementWord(OutLines[k][j])

NoForeignKey == Count(input, "FOREIGN KEY") = 0

\* the plain KEY lines that stand inside a table definition
IndexLinesInside ==
    {k \in 1..Len(lines) :
        IsIndexLine(lines[k]) /\ OpenDefinition(lines, k - 1) # None}

\* C6 as stated: without a foreign-key clause the pass only removes plain
\* KEY lines inside table definitions and collapses blank lines; no record
\* is made and no block appended.
C6_OnlyIndexLinesAndBlanks ==
    (pc = "write" /\ NoForeignKey) =>
        /\ \E D \in SUBSET IndexLinesInside :
               content = CollapseBlankLines(JoinLines(Without(lines, D, 1)))
        /\ foreign_keys = <<>>
        /\ Count(content, FkComment) = 0

\* C6 amended: without a foreign-key clause the pass only removes plain
\* KEY lines inside table definitions, the comma left before a ");" line,
\* and ALTER TABLE ... DISABLE/ENABLE KEYS statements, and collapses blank
\* lines; no record is made and no block appended.
C6_OnlyIndexLinesCommasTogglesAndBlanks ==
    (pc = "write" /\ NoForeignKey) =>
        /\ \E D \in SUBSET IndexLinesInside :
               content = CollapseBlankLines(RemoveKeysStatements(
                             CleanCommas(JoinLines(Without(lines, D, 1)))))
        /\ foreign_keys = <<>>
        /\ Count(content, FkComment) = 0

\* a dump without foreign keys whose KEY line was removed and whose
\* dangling comma was cleaned
C6_Witness ==
    /\ pc = "write"
    /\ NoForeignKey
    /\ Len(new_lines) < Len(lines)
    /\ content # CollapseBlankLines(JoinLines(new_lines))
    /\ Len(content) < Len(JoinLines(new_lines))

\* ----------------------------------------------------------------- C7

\* the constraint named by a statement of the block, and by a clause line
StatementName(l) == At(l, 12)
ClauseNames(ls) ==
    LET D == {k \in 1..Len(ls) : Count(ls[k], "FOREIGN KEY") = 0}
        kept == Without(ls, D, 1)
    IN  [k \in 1..Len(kept) |->
            kept[k][NextTok(kept[k], 1, "CONSTRAINT") + 3]]

\* the statement of the block that stands for the record fk
IsStatementOf(l, fk) ==
    /\ StartsWith(l, 1,
           <<"ALTER TABLE", SP, DQ>> \o fk.table
           \o <<DQ, SP, "ADD", SP, "CONSTRAINT", SP, DQ>> \o fk.constraint
           \o <<DQ, SP, "FOREIGN KEY", SP, "(">> \o fk.columns
           \o <<")", SP, "REFERENCES", SP, DQ>> \o fk.ref_table
           \o <<DQ, SP, "(">> \o fk.ref_columns \o <<")">>)
    /\ Last(l) = ";"

\* C7: with records, the output ends with one labeled block of one
\* statement per record, each once, in the order the scan discovered the
\* clauses, and every table definition stands before the block; without
\* records there is no block.
C7_BlockInDiscoveryOrder ==
    Final =>
        IF foreign_keys = <<>>
        THEN Count(content, FkComment) = 0
        ELSE /\ Count(content, FkComment) = 1
             /\ BlockStart # 0
             /\ Len(OutLines) = BlockStart + 1 + Len(foreign_keys)
             /\ OutLines[BlockStart + 1] = <<>>
             /\ \A k \in 1..Len(foreign_keys) :
                    IsStatementOf(OutLines[BlockStart + 1 + k],
                                  foreign_keys[k])
             /\ IsSubsequence(
                    [k \in 1..Len(foreign_keys) |->
                        StatementName(OutLines[BlockStart + 1 + k])],
                    ClauseNames(lines))
             /\ \A j \in BlockStart..Len(OutLines) :
                    Count(OutLines[j], "CREATE TABLE") = 0

\* two constraints of different names were recorded and emitted
C7_Witness ==
    /\ Final
    /\ Len(foreign_keys) >= 2
    /\ foreign_keys[1].constraint # foreign_keys[2].constraint
    /\ Cardinality(BlockLines) = 1 + Len(foreign_keys)

\* ----------------------------------------------------------------- C8

\* C8: during the scan the table context is open exactly from the opening
\* line of a definition to its closing delimiter line: it holds the name
\* of the table on every line of the body, whatever the line holds, and is
\* none once the closing line is scanned.
C8_ContextFollowsDefinition ==
    pc = "scan" =>
        /\ current_table = OpenDefinition(lines, idx - 1)
        /\ in_create_table = (OpenDefinition(lines, idx - 1) # None)

\* ----------------------------------------------------------------- C9

\* the next line of the scan is read with no table context open
ScansOutsideTable ==
    /\ pc = "scan"
    /\ idx <= Len(lines)
    /\ ~in_create_table
    /\ ~IsOpeningLine(lines[idx])

\* C9: a line scanned while no table context is open goes to the output
\* as it is and in its place, adds no record and raises no error, even
\* when it holds a CONSTRAINT ... FOREIGN KEY clause or begins with KEY.
C9_OutsideLinesPass ==
    [][ScansOutsideTable =>
          /\ new_lines' = Append(new_lines, lines[idx])
          /\ foreign_keys' = foreign_keys
          /\ pc' = "scan"
          /\ idx' = idx + 1]_vars

\* a line with a constraint clause and a line that begins with KEY were
\* both scanned outside a table and passed
C9_Witness ==
    /\ pc = "scan"
    /\ idx = 3
    /\ ~in_create_table
    /\ Count(lines[1], "FOREIGN KEY") = 1
    /\ IsIndexLine(lines[2])
    /\ new_lines = <<lines[1], lines[2]>>
    /\ foreign_keys = <<>>

\* ---------------------------------------------------------------- C10

\* the token at i is inside a string literal of an insert statement
InInsertLiteral(s, i) ==
    \E p \in 1..(i - 1) :
        /\ s[p] = "INSERT INTO"
        /\ i < StatementEnd(s, p)
        /\ s[i] # "'"
        /\ Cardinality({k \in p..i : s[k] = "'"}) % 2 = 1

\* C10: the string literals of the row data of an insert statement are
\* the same in the output as in the input, but for a backslash-escaped
\* quote that became a doubled quote.
C10_RowDataKept ==
    Final =>
        \A i \in 1..Len(input) :
            InInsertLiteral(input, i) =>
                \/ Output[i] = input[i]
                \/ input[i] = ESCQ /\ Output[i] = DBLQ

====
